---- MODULE Spec2Model ----
(***************************************************************************)
(* Model of kaihan, a static site generator.                              *)
(*                                                                         *)
(*  - src/src/markdown.rs : to_events (link rewrite) and bottom_footnotes  *)
(*  - src/src/main.rs     : to_md_events, read_source_files, main          *)
(*                                                                         *)
(* A markdown event is a record with a tag t.  Every event the tokenizer   *)
(* produces carries the auxiliary field at, its position in the tokenizer  *)
(* output; the code never reads it.  It gives each input event an identity *)
(* so that "this event appears in the output" can be stated.  An event     *)
(* that the code synthesises in place of an input event keeps the at of    *)
(* the event it replaces; Event::Rule and the <ol> wrapper have at = 0.    *)
(***************************************************************************)
EXTENDS Integers, Sequences, FiniteSets, TLC

\* Bounds of the model: the events of a document, the nesting of footnote
\* definitions, the entries of the content directory.
MaxLen == 8
MaxDepth == 2
MaxEntries == 3
MaxTitle == 3

\* Footnote labels and link destinations the tokenizer may produce.
Labels == {"a", "b"}
Dests == {<<"x">>, <<"!">>, <<"!", "!", "x">>}

VARIABLES
    events,             \* the events the tokenizer has yielded so far
    parser,             \* the tokenizer's block state: open definitions, paragraph, link
    collected,          \* markdown.rs:34 parser.collect(): events after the link map
    footnotes,          \* markdown.rs:42 local footnotes, as the forward pass leaves it
    footnote_numbers,   \* markdown.rs:44 local footnote_numbers after the forward pass
    out,                \* result of markdown.rs to_events
    md_out,             \* result of main.rs to_md_events
    called,             \* which of the two pipelines have been applied
    config,             \* main.rs:373 config
    pc,                 \* where main stands
    tree,               \* the directory entries read_source_files has read so far
    files,              \* main.rs:64 and 380 files
    by_layout,          \* main.rs:383 by_layout
    by_tag,             \* main.rs:384 by_tag
    recent_articles,    \* main.rs:406 recent_articles
    pages,              \* main.rs:414 pages
    dirs,               \* the directories of the output tree
    written,            \* every std::fs::write into the output tree, in order
    result,             \* how main ended: Running, Ok, or the failure
    errors              \* what validate_links logged with error!

mdVars == <<events, parser, collected, footnotes, footnote_numbers, out, md_out, called>>
buildVars == <<config, pc, tree, files, by_layout, by_tag, recent_articles, pages,
               dirs, written, result, errors>>
vars == <<mdVars, buildVars>>

----------------------------------------------------------------------------
\* Sequence helpers.

Last(s) == s[Len(s)]
Front(s) == SubSeq(s, 1, Len(s) - 1)

RECURSIVE Flatten(_)
Flatten(ss) == IF ss = <<>> THEN <<>> ELSE Head(ss) \o Flatten(Tail(ss))

----------------------------------------------------------------------------
\* Events (pulldown_cmark::Event), as far as the code distinguishes them.

FnStart(name, at) == [t |-> "FnStart", name |-> name, at |-> at]
FnEnd(at) == [t |-> "FnEnd", at |-> at]
FnRef(name, at) == [t |-> "FnRef", name |-> name, at |-> at]
PStart(at) == [t |-> "PStart", at |-> at]
PEnd(at) == [t |-> "PEnd", at |-> at]
Text(at) == [t |-> "Text", at |-> at]
Rule(at) == [t |-> "Rule", at |-> at]
LinkStart(dest, at) == [t |-> "LinkStart", dest_url |-> dest, at |-> at]
LinkEnd(at) == [t |-> "LinkEnd", at |-> at]

\* Html events the footnote code synthesises.  A DOM id fr-<name>-<nr> is the
\* triple <<"fr", name, nr>>, fn-<name> the pair <<"fn", name>>.
\* markdown.rs:62
AnchorHtml(name, nr, n, at) ==
    [t |-> "Html", kind |-> "anchor", id |-> <<"fr", name, nr>>,
     href |-> <<"fn", name>>, number |-> n, at |-> at]
\* markdown.rs:150
LiOpenHtml(name, at) == [t |-> "Html", kind |-> "li", id |-> <<"fn", name>>, at |-> at]
\* markdown.rs:161 and 163: the first usage is the plain glyph, the others
\* the glyph followed by the usage number (suffix 0 stands for no suffix).
BackrefLink(name, usage) ==
    [href |-> <<"fr", name, usage>>, suffix |-> IF usage = 1 THEN 0 ELSE usage]
\* markdown.rs:155-173
BackrefsHtml(name, usage_count, closes, at) ==
    [t |-> "Html", kind |-> "backrefs",
     links |-> [usage \in 1..usage_count |-> BackrefLink(name, usage)],
     closes |-> closes, at |-> at]
\* markdown.rs:175
LiCloseHtml(at) == [t |-> "Html", kind |-> "liclose", at |-> at]
\* markdown.rs:109
OlOpenHtml == [t |-> "Html", kind |-> "ol", at |-> 0]

----------------------------------------------------------------------------
\* markdown.rs:14-32 and main.rs:173-191: the link map.

\* A rewrite that strips one leading "!" only (str::strip_prefix).
StripOnePrefix(url) ==
    IF url # <<>> /\ Head(url) = "!" THEN Tail(url) ELSE url

\* str::trim_start_matches("!"): removes every leading "!".
RECURSIVE TrimStartMatches(_)
TrimStartMatches(url) ==
    IF url # <<>> /\ Head(url) = "!" THEN TrimStartMatches(Tail(url)) ELSE url

RewriteLink(e) ==
    IF e.t = "LinkStart" THEN [e EXCEPT !.dest_url = TrimStartMatches(@)] ELSE e

MapLinks(evs) == [i \in 1..Len(evs) |-> RewriteLink(evs[i])]

----------------------------------------------------------------------------
\* markdown.rs:39-183: bottom_footnotes.

\* The locals of the forward pass (markdown.rs:42-46).
PassStart ==
    [footnotes |-> <<>>, in_footnote |-> <<>>,
     footnote_numbers |-> [l \in {} |-> <<0, 0>>], new_events |-> <<>>]

\* footnote_numbers.get(name).unwrap_or(&(0, 0))
GetNumbers(numbers, name) ==
    IF name \in DOMAIN numbers THEN numbers[name] ELSE <<0, 0>>

\* in_footnote.last_mut().unwrap().push(e)
PushInnermost(stack, e) == [stack EXCEPT ![Len(stack)] = Append(@, e)]

\* A guard that diverts only inside a nested definition.
InsideNestedDefinition(st) == Len(st.in_footnote) > 1

\* markdown.rs:63 and 70: !in_footnote.is_empty()
InsideDefinition(st) == st.in_footnote # <<>>

\* The filter_map closure, markdown.rs:46-75, applied to one event.
Visit(st, event) ==
    IF event.t = "FnStart"
    THEN [st EXCEPT !.in_footnote = Append(@, <<event>>)]
    ELSE IF event.t = "FnEnd"
    THEN LET f == Append(Last(st.in_footnote), event)
         IN  [st EXCEPT !.in_footnote = Front(@), !.footnotes = Append(@, f)]
    ELSE IF event.t = "FnRef"
    THEN LET name == event.name
             numbers == st.footnote_numbers
             n == Cardinality(DOMAIN numbers) + 1
             entry == IF name \in DOMAIN numbers THEN numbers[name] ELSE <<n, 0>>
             nr == entry[2] + 1
             updated == [l \in DOMAIN numbers \cup {name} |->
                            IF l = name THEN <<entry[1], nr>> ELSE numbers[l]]
             html == AnchorHtml(name, nr, entry[1], event.at)
         IN  IF ~InsideDefinition(st)
             THEN [st EXCEPT !.footnote_numbers = updated,
                             !.new_events = Append(@, html)]
             ELSE [st EXCEPT !.footnote_numbers = updated,
                             !.in_footnote = PushInnermost(@, html)]
    ELSE IF InsideDefinition(st)
    THEN [st EXCEPT !.in_footnote = PushInnermost(@, event)]
    ELSE [st EXCEPT !.new_events = Append(@, event)]

RECURSIVE ForwardPass(_, _)
ForwardPass(st, evs) ==
    IF evs = <<>> THEN st ELSE ForwardPass(Visit(st, Head(evs)), Tail(evs))

\* markdown.rs:96-101: the retain predicate.
IsUsed(numbers, f) ==
    /\ f # <<>>
    /\ f[1].t = "FnStart"
    /\ GetNumbers(numbers, f[1].name)[2] # 0

Retain(numbers, fs) == SelectSeq(fs, LAMBDA f : IsUsed(numbers, f))

\* A key that leaves the definitions in their order in the source.
SortKeyDefinitionOrder(numbers, f) == 0

\* markdown.rs:102-107: the sort key.
SortKey(numbers, f) == GetNumbers(numbers, f[1].name)[1]

\* sort_by_cached_key is a stable sort: an element goes after every element
\* whose key is not greater.
RECURSIVE InsertByKey(_, _, _)
InsertByKey(numbers, sorted, f) ==
    IF sorted = <<>> THEN <<f>>
    ELSE IF SortKey(numbers, Last(sorted)) <= SortKey(numbers, f)
    THEN Append(sorted, f)
    ELSE Append(InsertByKey(numbers, Front(sorted), f), Last(sorted))

RECURSIVE SortByCachedKey(_, _)
SortByCachedKey(numbers, fs) ==
    IF fs = <<>> THEN <<>>
    ELSE InsertByKey(numbers, SortByCachedKey(numbers, Front(fs)), Last(fs))

\* A guard that forgets has_written_backrefs.
WritesBackrefsAgain(f, i, fl_len, has_written_backrefs) ==
    /\ f.t \in {"FnEnd", "PEnd"}
    /\ i >= fl_len - 2

\* markdown.rs:152-153: the guard of the back-reference arm (i counts from 0).
WritesBackrefs(f, i, fl_len, has_written_backrefs) ==
    /\ f.t \in {"FnEnd", "PEnd"}
    /\ ~has_written_backrefs
    /\ i >= fl_len - 2

\* markdown.rs:146-178: the map closure over one footnote, from index i on,
\* with the captured name and has_written_backrefs.
RECURSIVE RenderFootnote(_, _, _, _, _)
RenderFootnote(numbers, fl, i, name, has_written_backrefs) ==
    IF i >= Len(fl) THEN <<>>
    ELSE LET f == fl[i + 1] IN
         IF f.t = "FnStart"
         THEN <<LiOpenHtml(f.name, f.at)>>
              \o RenderFootnote(numbers, fl, i + 1, f.name, FALSE)
         ELSE IF WritesBackrefs(f, i, Len(fl), has_written_backrefs)
         THEN <<BackrefsHtml(name, numbers[name][2],
                             IF f.t = "FnEnd" THEN "li" ELSE "p", f.at)>>
              \o RenderFootnote(numbers, fl, i + 1, name, TRUE)
         ELSE IF f.t = "FnEnd"
         THEN <<LiCloseHtml(f.at)>>
              \o RenderFootnote(numbers, fl, i + 1, name, has_written_backrefs)
         ELSE <<f>> \o RenderFootnote(numbers, fl, i + 1, name, has_written_backrefs)

\* markdown.rs:95-180: what is appended after the forward pass.
Appended(numbers, fs) ==
    IF fs # <<>>
    THEN LET kept == SortByCachedKey(numbers, Retain(numbers, fs))
         IN  <<Rule(0), OlOpenHtml>>
             \o Flatten([k \in 1..Len(kept) |->
                            RenderFootnote(numbers, kept[k], 0, "", FALSE)])
    ELSE <<>>

bottom_footnotes(evs) ==
    LET st == ForwardPass(PassStart, evs)
    IN  st.new_events \o Appended(st.footnote_numbers, st.footnotes)

----------------------------------------------------------------------------
\* main.rs:165-224: to_md_events, after the tokenizer.

\* main.rs:199-216: the for_each closure.
MdVisit(st, e) ==
    LET in_footnote == st.in_footnote \/ e.t = "FnStart"
        footnote_done == e.t = "FnEnd"
    IN  [in_footnote |-> in_footnote /\ ~footnote_done,
         events |-> IF in_footnote THEN st.events ELSE Append(st.events, e),
         footnote_events |-> IF in_footnote THEN Append(st.footnote_events, e)
                             ELSE st.footnote_events]

RECURSIVE MdPass(_, _)
MdPass(st, evs) ==
    IF evs = <<>> THEN st ELSE MdPass(MdVisit(st, Head(evs)), Tail(evs))

to_md_events(evs) ==
    LET st == MdPass([in_footnote |-> FALSE, events |-> <<>>, footnote_events |-> <<>>],
                     MapLinks(evs))
    IN  IF st.footnote_events # <<>>
        THEN st.events \o <<Rule(0)>> \o st.footnote_events
        ELSE st.events

----------------------------------------------------------------------------
\* Text.  A string is a sequence of one-character strings, so that the code's
\* character operations (filter, lower-casing, splitting, comparison) can be
\* modelled as they work.  "Eacute" stands for the one character U+00C9.

Digits == <<"0", "1", "2", "3", "4", "5", "6", "7", "8", "9">>
Upper == <<"A", "B", "C", "D", "E", "F", "G", "H", "I", "J", "K", "L", "M",
           "N", "O", "P", "Q", "R", "S", "T", "U", "V", "W", "X", "Y", "Z">>
Lower == <<"a", "b", "c", "d", "e", "f", "g", "h", "i", "j", "k", "l", "m",
           "n", "o", "p", "q", "r", "s", "t", "u", "v", "w", "x", "y", "z">>
\* The characters of the model in byte order (the order of str and Path
\* comparison).
ByteOrder ==
    <<"\t", " ", "!", "#", ",", "-", ".", "/">> \o Digits \o <<":">> \o Upper
    \o <<"_">> \o Lower \o <<"Eacute">>

IndexOf(seq, c) ==
    IF \E i \in 1..Len(seq) : seq[i] = c
    THEN CHOOSE i \in 1..Len(seq) : seq[i] = c
    ELSE 0

\* char::is_alphanumeric (Unicode), char::is_ascii_whitespace,
\* char::to_ascii_lowercase: main.rs:116-118.
IsAlphanumeric(c) ==
    IndexOf(Digits, c) # 0 \/ IndexOf(Upper, c) # 0 \/ IndexOf(Lower, c) # 0
    \/ c = "Eacute"
IsAsciiWhitespace(c) == c \in {" ", "\t"}
CharToAsciiLowercase(c) == IF IndexOf(Upper, c) # 0 THEN Lower[IndexOf(Upper, c)] ELSE c
ToAsciiLowercase(str) == [i \in 1..Len(str) |-> CharToAsciiLowercase(str[i])]

\* str::starts_with, str::contains, str::split_once, str::split, str::trim.
StartsWith(str, pat) == Len(str) >= Len(pat) /\ SubSeq(str, 1, Len(pat)) = pat
FindFirst(str, pat) ==
    LET hits == {i \in 1..(Len(str) - Len(pat) + 1) :
                    SubSeq(str, i, i + Len(pat) - 1) = pat}
    IN  IF hits = {} THEN 0 ELSE CHOOSE i \in hits : \A j \in hits : i <= j
Contains(str, pat) == FindFirst(str, pat) # 0
\* The two parts around the first occurrence of pat (which must occur).
SplitOnce(str, pat) ==
    LET i == FindFirst(str, pat)
    IN  <<SubSeq(str, 1, i - 1), SubSeq(str, i + Len(pat), Len(str))>>
RECURSIVE Split(_, _)
Split(str, pat) ==
    IF Contains(str, pat)
    THEN <<SplitOnce(str, pat)[1]>> \o Split(SplitOnce(str, pat)[2], pat)
    ELSE <<str>>
RECURSIVE TrimStart(_)
TrimStart(str) ==
    IF str # <<>> /\ IsAsciiWhitespace(Head(str)) THEN TrimStart(Tail(str)) ELSE str
RECURSIVE TrimEnd(_)
TrimEnd(str) ==
    IF str # <<>> /\ IsAsciiWhitespace(Last(str)) THEN TrimEnd(Front(str)) ELSE str
Trim(str) == TrimEnd(TrimStart(str))
\* str::replace(' ', "-")
ReplaceSpaces(str) == [i \in 1..Len(str) |-> IF str[i] = " " THEN "-" ELSE str[i]]

\* Ordering: -1, 0 or 1, as Ord::cmp.  Strings compare by bytes, paths
\* component by component, timestamps field by field.
RECURSIVE StrCmp(_, _)
StrCmp(a, b) ==
    IF a = <<>> /\ b = <<>> THEN 0
    ELSE IF a = <<>> THEN -1
    ELSE IF b = <<>> THEN 1
    ELSE IF IndexOf(ByteOrder, Head(a)) < IndexOf(ByteOrder, Head(b)) THEN -1
    ELSE IF IndexOf(ByteOrder, Head(a)) > IndexOf(ByteOrder, Head(b)) THEN 1
    ELSE StrCmp(Tail(a), Tail(b))
RECURSIVE PathCmp(_, _)
PathCmp(p, q) ==
    IF p = <<>> /\ q = <<>> THEN 0
    ELSE IF p = <<>> THEN -1
    ELSE IF q = <<>> THEN 1
    ELSE IF StrCmp(Head(p), Head(q)) # 0 THEN StrCmp(Head(p), Head(q))
    ELSE PathCmp(Tail(p), Tail(q))
RECURSIVE TimeCmp(_, _)
TimeCmp(s, t) ==
    IF s = <<>> THEN 0
    ELSE IF Head(s) < Head(t) THEN -1
    ELSE IF Head(s) > Head(t) THEN 1
    ELSE TimeCmp(Tail(s), Tail(t))

\* String literals of the program.
S_title == <<"t", "i", "t", "l", "e">>
S_date == <<"d", "a", "t", "e">>
S_status == <<"s", "t", "a", "t", "u", "s">>
S_layout == <<"l", "a", "y", "o", "u", "t">>
S_save_as == <<"s", "a", "v", "e", "_", "a", "s">>
S_tags == <<"t", "a", "g", "s">>
S_public == <<"p", "u", "b", "l", "i", "c">>
S_draft == <<"d", "r", "a", "f", "t">>
S_hidden == <<"h", "i", "d", "d", "e", "n">>
S_page == <<"p", "a", "g", "e">>
S_post == <<"p", "o", "s", "t">>
S_blog == <<"b", "l", "o", "g">>
S_index_html == <<"i", "n", "d", "e", "x", ".", "h", "t", "m", "l">>
S_archives_html == <<"a", "r", "c", "h", "i", "v", "e", "s", ".", "h", "t", "m", "l">>
S_tags_html == <<"t", "a", "g", "s", ".", "h", "t", "m", "l">>
S_dot_html == <<".", "h", "t", "m", "l">>
S_http == <<"h", "t", "t", "p">>
S_mailto == <<"m", "a", "i", "l", "t", "o">>
S_extra == <<"e", "x", "t", "r", "a">>
S_colon_space == <<":", " ">>

----------------------------------------------------------------------------
\* main.rs:63-163: read_source_files, one markdown file.
\*
\* The contents of a markdown file are [lines, body]: lines are the lines
\* before the first blank line (all lines when the file has none), body is
\* NoBody when the file holds no "\n\n" and else Body(events): what follows
\* it, given as the event sequence the tokenizer reads from it.

NoBody == <<>>
Body(evs) == <<evs>>

\* main.rs:29-40: ContentStatus::try_from.
UnknownStatus == "unknown content status"
\* A conversion that takes every unknown status for public.
ContentStatusOrPublic(str) ==
    LET lowered == ToAsciiLowercase(str)
    IN  IF lowered = S_draft THEN "Draft"
        ELSE IF lowered = S_hidden THEN "Hidden"
        ELSE "Public"
ContentStatusTryFrom(str) ==
    LET lowered == ToAsciiLowercase(str)
    IN  IF lowered = S_public THEN "Public"
        ELSE IF lowered = S_draft THEN "Draft"
        ELSE IF lowered = S_hidden THEN "Hidden"
        ELSE UnknownStatus

\* main.rs:85-92: the metadata map; a later line with the same key wins.
IsDelimited(line) == Contains(line, S_colon_space)
MetadataKey(line) == ToAsciiLowercase(SplitOnce(line, S_colon_space)[1])
MetadataMap(lines) ==
    [k \in {MetadataKey(lines[i]) : i \in 1..Len(lines)} |->
        LET last == CHOOSE i \in 1..Len(lines) :
                        /\ MetadataKey(lines[i]) = k
                        /\ \A j \in 1..Len(lines) : MetadataKey(lines[j]) = k => j <= i
        IN  SplitOnce(lines[last], S_colon_space)[2]]

\* chrono::NaiveDateTime::parse_from_str(date, "%Y-%m-%d %H:%M").  The source
\* files of the model write a date zero-padded (dddd-dd-dd dd:dd) or write
\* something that is no date at all; chrono's leniency about padding is not
\* modelled.
BadDate == <<>>
DaysInMonth(year, month) ==
    IF month = 2
    THEN (IF year % 4 = 0 /\ (year % 100 # 0 \/ year % 400 = 0) THEN 29 ELSE 28)
    ELSE IF month \in {4, 6, 9, 11} THEN 30 ELSE 31
RECURSIVE ParseNumber(_)
ParseNumber(str) ==
    IF str = <<>> THEN 0 ELSE 10 * ParseNumber(Front(str)) + (IndexOf(Digits, Last(str)) - 1)
ParseDateTime(str) ==
    LET digitsAt == {1, 2, 3, 4, 6, 7, 9, 10, 12, 13, 15, 16}
        shaped == /\ Len(str) = 16
                  /\ \A i \in digitsAt : IndexOf(Digits, str[i]) # 0
                  /\ str[5] = "-" /\ str[8] = "-" /\ str[11] = " " /\ str[14] = ":"
        year == ParseNumber(SubSeq(str, 1, 4))
        month == ParseNumber(SubSeq(str, 6, 7))
        day == ParseNumber(SubSeq(str, 9, 10))
        hour == ParseNumber(SubSeq(str, 12, 13))
        minute == ParseNumber(SubSeq(str, 15, 16))
    IN  IF /\ shaped /\ month \in 1..12 /\ day \in 1..DaysInMonth(year, month)
           /\ hour \in 0..23 /\ minute \in 0..59
        THEN <<year, month, day, hour, minute>>
        ELSE BadDate

\* date.format("%Y/%m/%d"), as the path components it adds.
TwoDigits(n) == <<Digits[(n \div 10) + 1], Digits[(n % 10) + 1]>>
FormatDatePath(ts) ==
    <<TwoDigits(ts[1] \div 100) \o TwoDigits(ts[1] % 100), TwoDigits(ts[2]), TwoDigits(ts[3])>>

\* Path::new(p): the components of a relative path string.
PathComponents(str) == SelectSeq(Split(str, <<"/">>), LAMBDA c : c # <<>>)

\* main.rs:112-119: the slug of a title.
Slug(title) ==
    ReplaceSpaces(ToAsciiLowercase(
        SelectSeq(title, LAMBDA c : IsAlphanumeric(c) \/ IsAsciiWhitespace(c))))

\* main.rs:109-129: the output path.
OutputPath(metadata, date) ==
    IF S_save_as \in DOMAIN metadata
    THEN PathComponents(metadata[S_save_as])
    ELSE LET slug == Slug(metadata[S_title])
             layout == IF S_layout \in DOMAIN metadata THEN metadata[S_layout] ELSE <<>>
         IN  IF layout = S_page
             THEN <<slug>>
             ELSE <<S_blog>> \o FormatDatePath(date) \o <<slug>>

\* main.rs:130-138: the tags.
TagsOf(metadata) ==
    IF S_tags \in DOMAIN metadata
    THEN SelectSeq([i \in 1..Len(Split(metadata[S_tags], <<",">>)) |->
                        Trim(Split(metadata[S_tags], <<",">>)[i])],
                   LAMBDA t : t # <<>>)
    ELSE <<>>

\* main.rs:78-147: a markdown file becomes a RawContent, or loading fails:
\* with an error (the ? operator) or with a panic (assert!, unwrap).
Failure(kind, what) == [ok |-> FALSE, kind |-> kind, what |-> what]
ParseContent(contents) ==
    IF contents.body = NoBody
    THEN Failure("Err", "Must have metadata!")
    ELSE IF ~\E i \in 1..Len(contents.lines) : Contains(contents.lines[i], S_title \o S_colon_space)
    THEN Failure("Panic", "assertion failed: metadata.contains(title: )")
    ELSE IF \E i \in 1..Len(contents.lines) : ~IsDelimited(contents.lines[i])
    THEN Failure("Err", "Metadata must be : delimited")
    ELSE LET metadata == MetadataMap(contents.lines) IN
    IF S_date \notin DOMAIN metadata
    THEN Failure("Err", "Must have date metadata")
    ELSE LET given == metadata[S_date]
             date == ParseDateTime(IF Contains(given, <<" ">>)
                                   THEN given
                                   ELSE given \o <<" ", "0", "0", ":", "0", "0">>)
         IN
    IF date = BadDate
    THEN Failure("Err", "date parse error")
    ELSE LET status == ContentStatusTryFrom(IF S_status \in DOMAIN metadata
                                            THEN metadata[S_status] ELSE S_public)
         IN
    IF status = UnknownStatus
    THEN Failure("Err", UnknownStatus)
    ELSE IF S_save_as \notin DOMAIN metadata /\ S_title \notin DOMAIN metadata
    THEN Failure("Panic", "called Option::unwrap() on a None value")
    ELSE [ok |-> TRUE,
          file |-> [kind |-> "Content",
                    path |-> OutputPath(metadata, date),
                    markdown |-> contents.body[1],
                    metadata |-> metadata,
                    timestamp |-> date,
                    status |-> status,
                    tags |-> TagsOf(metadata)]]

\* main.rs:66-161: one directory entry.  An entry is [name, ext, prefix,
\* contents]: the file name, its extension ("" when it has none, as
\* .DS_Store), the directory it lies in below the content root (a path) and
\* what it holds.  The result is the list of RawFile values the entry adds,
\* or a failure.
ReadEntry(entry) ==
    IF entry.ext \in {"md", "markdown"}
    THEN LET parsed == ParseContent(entry.contents)
         IN  IF parsed.ok THEN [ok |-> TRUE, files |-> <<parsed.file>>] ELSE parsed
    ELSE IF entry.ext \in {"py", ""}
    THEN [ok |-> TRUE, files |-> <<>>]
    ELSE [ok |-> TRUE,
          files |-> <<[kind |-> "Static",
                       path |-> IF entry.prefix = <<S_extra>>
                                THEN <<entry.name>>
                                ELSE Append(entry.prefix, entry.name),
                       data |-> entry.contents]>>]

----------------------------------------------------------------------------
\* The output tree.  A path is a sequence of components below render_path.
\* std::fs::write fails when the parent directory is missing; after a failure
\* the ? operator skips what follows.

CreateDirAll(fs, path) ==
    IF fs.ok
    THEN [fs EXCEPT !.dirs = @ \cup {SubSeq(path, 1, k) : k \in 0..Len(path)}]
    ELSE fs

FsWrite(fs, path, content) ==
    IF ~fs.ok THEN fs
    ELSE IF Front(path) \in fs.dirs
    THEN [fs EXCEPT !.written = Append(@, [path |-> path, content |-> content])]
    ELSE [fs EXCEPT !.ok = FALSE]

Exists(fs, path) ==
    path \in fs.dirs \/ \E k \in 1..Len(fs.written) : fs.written[k].path = path

\* Iterator::take(n), Iterator::rev.
Take(seq, n) == SubSeq(seq, 1, IF Len(seq) < n THEN Len(seq) ELSE n)
Reverse(seq) == [i \in 1..Len(seq) |-> seq[Len(seq) + 1 - i]]

\* main.rs:436 and 472: take(10).
ListedArticles == 10

----------------------------------------------------------------------------
\* main.rs:260-283: to_article.  item is the position of the content in
\* files; the code has no such field, it identifies the article in the
\* claims.  The summary (the first 100 words of the text, rendered) is left
\* out: the body is held as events, not as text.
ToArticle(i) ==
    [item |-> i,
     title |-> files[i].metadata[S_title],
     url |-> files[i].path,
     content |-> to_md_events(files[i].markdown),
     tags |-> files[i].tags,
     timestamp |-> files[i].timestamp]
ToArticles(items) == [k \in 1..Len(items) |-> ToArticle(items[k])]
\* main.rs:261-264: to_article fails without a title.
HasTitle(i) == S_title \in DOMAIN files[i].metadata

\* main.rs:401 and 468: the comparison (&a.path, a.timestamp).cmp(..).
CompareItems(i, j) ==
    IF PathCmp(files[i].path, files[j].path) # 0
    THEN PathCmp(files[i].path, files[j].path)
    ELSE TimeCmp(files[i].timestamp, files[j].timestamp)

\* slice::sort_by, a stable sort.
RECURSIVE InsertItem(_, _)
InsertItem(sorted, i) ==
    IF sorted = <<>> THEN <<i>>
    ELSE IF CompareItems(Last(sorted), i) <= 0
    THEN Append(sorted, i)
    ELSE Append(InsertItem(Front(sorted), i), Last(sorted))
RECURSIVE SortItems(_)
SortItems(items) ==
    IF items = <<>> THEN <<>> ELSE InsertItem(SortItems(Front(items)), Last(items))

\* main.rs:420: pages.sort_by(|a, b| a.title.cmp(&b.title)).
RECURSIVE InsertByTitle(_, _)
InsertByTitle(sorted, a) ==
    IF sorted = <<>> THEN <<a>>
    ELSE IF StrCmp(Last(sorted).title, a.title) <= 0
    THEN Append(sorted, a)
    ELSE Append(InsertByTitle(Front(sorted), a), Last(sorted))
RECURSIVE SortByTitle(_)
SortByTitle(articles) ==
    IF articles = <<>> THEN <<>>
    ELSE InsertByTitle(SortByTitle(Front(articles)), Last(articles))

\* A grouping that leaves out the hidden items only.
IsGroupedUnlessHidden(f) == f.kind = "Content" /\ f.status # "Hidden"

\* main.rs:386-389: the items that are grouped.
IsGrouped(f) == f.kind = "Content" /\ f.status = "Public"

\* main.rs:391-393: the group of a layout, in load order.
LayoutGroup(layout) ==
    SelectSeq([i \in 1..Len(files) |-> i],
              LAMBDA i : /\ IsGrouped(files[i])
                         /\ S_layout \in DOMAIN files[i].metadata
                         /\ files[i].metadata[S_layout] = layout)
\* main.rs:394-396: the group of a tag: one entry for each time the tag
\* stands in an item's tags.
TagGroup(tag) ==
    Flatten([i \in 1..Len(files) |->
        IF IsGrouped(files[i])
        THEN [k \in 1..Len(SelectSeq(files[i].tags, LAMBDA t : t = tag)) |-> i]
        ELSE <<>>])

GroupedLayouts ==
    {files[i].metadata[S_layout] :
        i \in {j \in 1..Len(files) :
                  IsGrouped(files[j]) /\ S_layout \in DOMAIN files[j].metadata}}
GroupedTags ==
    UNION {{files[i].tags[k] : k \in 1..Len(files[i].tags)} :
              i \in {j \in 1..Len(files) : IsGrouped(files[j])}}

\* main.rs:467-474: the articles of a tag page.
TagPageArticles(posts) == ToArticles(Take(Reverse(SortItems(posts)), ListedArticles))

\* The tags in byte order.  The code walks the HashMap in an unspecified
\* order; the order decides only the order of the writes of the tag pages,
\* which go to distinct files.
RECURSIVE TagsInOrder(_)
TagsInOrder(tags) ==
    IF tags = {} THEN <<>>
    ELSE LET first == CHOOSE t \in tags : \A u \in tags : StrCmp(t, u) <= 0
         IN  <<first>> \o TagsInOrder(tags \ {first})

\* main.rs:466-481: the tag pages.
RECURSIVE WriteTagPages(_, _)
WriteTagPages(fs, tags) ==
    IF tags = <<>> THEN fs
    ELSE WriteTagPages(
            FsWrite(fs, <<S_tags, Head(tags) \o S_dot_html>>,
                    [page |-> "tag", tag |-> Head(tags),
                     articles |-> TagPageArticles(by_tag[Head(tags)])]),
            Tail(tags))

\* render.rs:12-44: rss.
Rss(fs) ==
    LET path == PathComponents(config.feed_all_rss)
    IN  FsWrite(CreateDirAll(fs, Front(path)), path,
                [page |-> "rss", articles |-> Take(recent_articles, config.max_feed_entries)])
\* render.rs:46-93: atom.  Line 89 creates the parent of the RSS path.
Atom(fs) ==
    FsWrite(CreateDirAll(fs, Front(PathComponents(config.feed_all_rss))),
            PathComponents(config.feed_all_atom),
            [page |-> "atom", articles |-> Take(recent_articles, config.max_feed_entries)])
\* render.rs:5-10: feeds.
Feeds(fs) == Atom(Rss(fs))

\* main.rs:292-296: where render_content puts a page.
RenderDir(f) == IF f.status = "Draft" THEN <<S_draft>> ELSE <<>>

\* main.rs:286-315: render_content.  The template <layout>.html (page.html
\* without a layout) is taken to exist.
RenderContent(fs, i) ==
    LET dst == RenderDir(files[i]) \o files[i].path \o <<S_index_html>>
    IN  IF ~HasTitle(i) THEN [fs EXCEPT !.ok = FALSE]
        ELSE FsWrite(CreateDirAll(fs, Front(dst)), dst,
                     [page |-> "article", article |-> ToArticle(i)])

\* main.rs:486-495: the render loop, from file i on.
RECURSIVE RenderFiles(_, _)
RenderFiles(fs, i) ==
    IF i > Len(files) THEN fs
    ELSE IF files[i].kind = "Content"
    THEN RenderFiles(RenderContent(fs, i), i + 1)
    ELSE RenderFiles(
            FsWrite(CreateDirAll(fs, Front(files[i].path)), files[i].path,
                    [page |-> "static", item |-> i, data |-> files[i].data]),
            i + 1)

\* str::trim_matches('/')
RECURSIVE TrimSlashes(_)
TrimSlashes(url) ==
    IF url # <<>> /\ Head(url) = "/" THEN TrimSlashes(Tail(url))
    ELSE IF url # <<>> /\ Last(url) = "/" THEN TrimSlashes(Front(url))
    ELSE url

\* main.rs:237-254: what validate_links logs for one link destination.
CheckLink(fs, i, url) ==
    IF StartsWith(url, <<"/">>)
    THEN LET trimmed == TrimSlashes(url)
             target == IF Contains(trimmed, <<"#">>)
                       THEN SplitOnce(trimmed, <<"#">>)[1] ELSE trimmed
         IN  IF ~Exists(fs, PathComponents(target))
             THEN <<[item |-> i, error |-> "Dangling internal URL", url |-> target]>>
             ELSE <<>>
    ELSE IF ~StartsWith(url, S_http) /\ ~StartsWith(url, S_mailto)
    THEN <<[item |-> i, error |-> "Internal URLs should be absolute", url |-> url]>>
    ELSE <<>>

\* A validation that runs inside the render loop: item i is checked against
\* what the loop has written up to item i.
ValidateLinksWhileRendering(fs, i) ==
    LET sofar == [fs EXCEPT !.written =
                    SelectSeq(@, LAMBDA w :
                        /\ ~(w.content.page = "static" /\ w.content.item > i)
                        /\ ~(w.content.page = "article" /\ w.content.article.item > i))]
        evs == to_md_events(files[i].markdown)
    IN  Flatten([k \in 1..Len(evs) |->
            IF evs[k].t = "LinkStart" THEN CheckLink(sofar, i, evs[k].dest_url) ELSE <<>>])

\* main.rs:234-258: validate_links of item i.
ValidateLinks(fs, i) ==
    LET evs == to_md_events(files[i].markdown)
    IN  Flatten([k \in 1..Len(evs) |->
            IF evs[k].t = "LinkStart" THEN CheckLink(fs, i, evs[k].dest_url) ELSE <<>>])

----------------------------------------------------------------------------
\* The source tree of the build: the entries the content directory can hold.

Line(key, value) == key \o S_colon_space \o value

DateOnly == <<"2", "0", "2", "4", "-", "0", "1", "-", "0", "2">>
DateWithTime ==
    <<"2", "0", "2", "4", "-", "0", "1", "-", "0", "1", " ", "1", "0", ":", "0", "0">>
GoodDates == {DateOnly, DateWithTime}
NotADate == <<"s", "o", "o", "n">>
TitleHi == <<"H", "i">>
\* The body of every article: a paragraph with a link to /hi.
ArticleBody == <<PStart(1), LinkStart(<<"/", "h", "i">>, 2), Text(3), LinkEnd(4), PEnd(5)>>

\* A body with a link to a static file, a link to nothing, a link that is
\* not absolute and an external link.
LinksBody ==
    <<PStart(1),
      LinkStart(<<"/", "i", "m", "g", "/", "m", "e", ".", "p", "n", "g">>, 2), LinkEnd(3),
      LinkStart(<<"/", "n", "o">>, 4), LinkEnd(5),
      LinkStart(<<"r", "e", "l">>, 6), LinkEnd(7),
      LinkStart(<<"h", "t", "t", "p", ":", "/", "/", "x">>, 8), LinkEnd(9),
      PEnd(10)>>

\* A markdown file with a title, a date, a layout and optionally a status and tags.
Markdown(date, status, layout, tags) ==
    [name |-> <<"a", ".", "m", "d">>, ext |-> "md", prefix |-> <<>>,
     contents |->
        [lines |-> <<Line(S_title, TitleHi), Line(S_date, date)>>
                   \o (IF status = <<>> THEN <<>> ELSE <<Line(<<"S", "t", "a", "t", "u", "s">>, status)>>)
                   \o <<Line(S_layout, layout)>>
                   \o (IF tags = <<>> THEN <<>> ELSE <<Line(S_tags, tags)>>),
         body |-> Body(ArticleBody)]]

\* The well-formed files: posts dated by day, pages dated to the minute of the
\* day before, each public, draft or hidden, with or without tags; a draft
\* that names its place with save_as; a public post with links of every
\* kind that names one tag twice.
WellFormedMarkdown ==
    {Markdown(dated[1], status, dated[2], tags) :
        dated \in {<<DateOnly, S_post>>, <<DateWithTime, S_page>>},
        status \in {<<>>, <<"D", "r", "a", "f", "t">>, S_hidden},
        tags \in {<<>>, <<"a", ",", " ", "b">>}}
    \cup {[name |-> <<"a", ".", "m", "d">>, ext |-> "md", prefix |-> <<>>,
           contents |->
              [lines |-> <<Line(S_title, TitleHi), Line(S_date, DateOnly),
                           Line(S_status, S_draft), Line(S_layout, S_post),
                           Line(S_tags, <<"a">>), Line(S_save_as, <<"s", "/", "p">>)>>,
               body |-> Body(ArticleBody)]]}
    \cup {[Markdown(DateOnly, <<>>, S_post, <<"a", ",", " ", "a">>)
              EXCEPT !.contents.body = Body(LinksBody)]}

\* The ways a markdown file can be wrong.
MalformedMarkdown ==
    LET good == Markdown(DateOnly, <<>>, S_post, <<>>)
        lines == good.contents.lines
    IN  {[good EXCEPT !.contents.body = NoBody],
         [good EXCEPT !.contents.lines = Append(lines, <<"n", "o", "t", "e">>)],
         [good EXCEPT !.contents.lines = <<lines[1], lines[3]>>],
         [good EXCEPT !.contents.lines[2] = Line(S_date, NotADate)],
         [good EXCEPT !.contents.lines = Append(lines, Line(S_status, <<"s", "e", "c", "r", "e", "t">>))],
         [good EXCEPT !.contents.lines = <<Line(S_date, NotADate), lines[3]>>]}

\* A static file in a subdirectory and a file the loader ignores.
OtherEntries ==
    {[name |-> <<"m", "e", ".", "p", "n", "g">>, ext |-> "png",
      prefix |-> <<<<"i", "m", "g">>>>, contents |-> "bytes"],
     [name |-> <<"x", ".", "p", "y">>, ext |-> "py", prefix |-> <<>>, contents |-> "bytes"]}

SourceEntries == WellFormedMarkdown \cup MalformedMarkdown \cup OtherEntries

\* What read_source_files makes of each entry.
ReadResult == [entry \in SourceEntries |-> ReadEntry(entry)]

\* The site configurations: the two feed files in one directory, or in two.
FeedEntries == 2
Configs ==
    {[feed_all_rss |-> <<"f", "/", "r", ".", "x", "m", "l">>,
      feed_all_atom |-> atom, max_feed_entries |-> FeedEntries] :
        atom \in {<<"f", "/", "a", ".", "x", "m", "l">>,
                  <<"g", "/", "a", ".", "x", "m", "l">>}}

----------------------------------------------------------------------------
\* main.rs:349-505: main, as a state machine.

Running == [ok |-> TRUE, kind |-> "Running"]
Finished == [ok |-> TRUE, kind |-> "Ok"]
NoGroups == [l \in {} |-> <<>>]
StaleFile == [path |-> <<S_index_html>>, content |-> [page |-> "stale"]]

\* The configuration before main has used it.
NoConfig == [feed_all_rss |-> <<>>, feed_all_atom |-> <<>>, max_feed_entries |-> 0]

\* The build variables while no build runs.
BuildNotStarted ==
    /\ config = NoConfig
    /\ pc = "idle"
    /\ tree = <<>>
    /\ files = <<>>
    /\ by_layout = NoGroups
    /\ by_tag = NoGroups
    /\ recent_articles = <<>>
    /\ pages = <<>>
    /\ dirs = {}
    /\ written = <<>>
    /\ result = Running
    /\ errors = <<>>

\* The build starts over the output of an earlier run.
BuildInit ==
    /\ config = NoConfig
    /\ pc = "start"
    /\ tree = <<>>
    /\ files = <<>>
    /\ by_layout = NoGroups
    /\ by_tag = NoGroups
    /\ recent_articles = <<>>
    /\ pages = <<>>
    /\ dirs = {<<>>}
    /\ written = <<StaleFile>>
    /\ result = Running
    /\ errors = <<>>
    /\ events = <<>>
    /\ parser = [depth |-> 0, para |-> FALSE, link |-> FALSE]
    /\ collected = <<>>
    /\ footnotes = <<>>
    /\ footnote_numbers = PassStart.footnote_numbers
    /\ out = <<>>
    /\ md_out = <<>>
    /\ called = {}

Fs == [dirs |-> dirs, written |-> written, ok |-> TRUE]
IoError == Failure("Err", "io error")

\* The build goes on at next with the output tree fs, or stops on an error.
Continue(fs, next) ==
    /\ dirs' = fs.dirs
    /\ written' = fs.written
    /\ pc' = IF fs.ok THEN next ELSE "aborted"
    /\ result' = IF fs.ok THEN (IF next = "done" THEN Finished ELSE Running) ELSE IoError

\* main.rs:377-378: the output directory is removed and created again.
CleanOutput ==
    /\ pc = "start"
    /\ Continue([dirs |-> {<<>>}, written |-> <<>>, ok |-> TRUE], "read")
    /\ UNCHANGED <<config, tree, files, by_layout, by_tag, recent_articles, pages, errors>>
    /\ UNCHANGED mdVars

\* main.rs:66-161: read_source_files reads one more directory entry.  On a
\* failure the list is lost with the call and main ends.
ReadSourceFile ==
    /\ pc = "read"
    /\ Len(tree) < MaxEntries
    /\ \E entry \in SourceEntries :
        LET read == ReadResult[entry] IN
        /\ tree' = Append(tree, entry)
        /\ IF read.ok
           THEN /\ files' = files \o read.files
                /\ UNCHANGED <<pc, result>>
           ELSE /\ files' = <<>>
                /\ pc' = "aborted"
                /\ result' = read
    /\ UNCHANGED <<config, by_layout, by_tag, recent_articles, pages, dirs, written, errors>>
    /\ UNCHANGED mdVars

\* main.rs:162 and 380-381: the directory is exhausted, read_source_files
\* returns the list; the templates are read.
SourceFilesRead ==
    /\ pc = "read"
    /\ pc' = "group"
    /\ UNCHANGED <<config, tree, files, by_layout, by_tag, recent_articles, pages,
                   dirs, written, result, errors>>
    /\ UNCHANGED mdVars

\* main.rs:383-420: the groups, recent_articles and pages.  The unwrap of
\* lines 408 and 416 panics without a public post or without a public page.
\* The configuration, read at line 373, is first used for the context that
\* line 422 builds from it: its value is drawn here.
GroupContent ==
    /\ pc = "group"
    /\ config' \in Configs
    /\ by_layout' = [l \in GroupedLayouts |-> SortItems(LayoutGroup(l))]
    /\ by_tag' = [t \in GroupedTags |-> TagGroup(t)]
    /\ IF S_post \in GroupedLayouts /\ S_page \in GroupedLayouts
       THEN /\ recent_articles' = ToArticles(Reverse(SortItems(LayoutGroup(S_post))))
            /\ pages' = SortByTitle(ToArticles(SortItems(LayoutGroup(S_page))))
            /\ pc' = "index"
            /\ UNCHANGED result
       ELSE /\ UNCHANGED <<recent_articles, pages>>
            /\ pc' = "aborted"
            /\ result' = Failure("Panic", "called Option::unwrap() on a None value")
    /\ UNCHANGED <<tree, files, dirs, written, errors>>
    /\ UNCHANGED mdVars

\* main.rs:434-444: index.html and archives.html.
WriteIndex ==
    /\ pc = "index"
    /\ Continue(
          FsWrite(FsWrite(Fs, <<S_index_html>>,
                          [page |-> "index",
                           articles |-> Take(recent_articles, ListedArticles)]),
                  <<S_archives_html>>,
                  [page |-> "archives", articles |-> recent_articles]),
          "tags")
    /\ UNCHANGED <<config, tree, files, by_layout, by_tag, recent_articles, pages, errors>>
    /\ UNCHANGED mdVars

\* main.rs:446-481: tags.html (the tag cloud is a function of the sizes of
\* the groups, which stand for it) and one page for each tag.
WriteTags ==
    /\ pc = "tags"
    /\ Continue(
          WriteTagPages(
              CreateDirAll(
                  FsWrite(Fs, <<S_tags_html>>,
                          [page |-> "tags",
                           tag_cloud |-> [t \in DOMAIN by_tag |-> Len(by_tag[t])]]),
                  <<S_tags>>),
              TagsInOrder(DOMAIN by_tag)),
          "feeds")
    /\ UNCHANGED <<config, tree, files, by_layout, by_tag, recent_articles, pages, errors>>
    /\ UNCHANGED mdVars

\* main.rs:483: render::feeds.
WriteFeeds ==
    /\ pc = "feeds"
    /\ Continue(Feeds(Fs), "render")
    /\ UNCHANGED <<config, tree, files, by_layout, by_tag, recent_articles, pages, errors>>
    /\ UNCHANGED mdVars

\* main.rs:485-495: every content item and every static file is written.
RenderAll ==
    /\ pc = "render"
    /\ Continue(RenderFiles(Fs, 1), "validate")
    /\ UNCHANGED <<config, tree, files, by_layout, by_tag, recent_articles, pages, errors>>
    /\ UNCHANGED mdVars

\* main.rs:497-504: the links of every content item are checked; main
\* returns Ok.
ValidateAll ==
    /\ pc = "validate"
    /\ errors' = Flatten([i \in 1..Len(files) |->
                    IF files[i].kind = "Content" THEN ValidateLinks(Fs, i) ELSE <<>>])
    /\ Continue(Fs, "done")
    /\ UNCHANGED <<config, tree, files, by_layout, by_tag, recent_articles, pages>>
    /\ UNCHANGED mdVars

BuildNext ==
    \/ CleanOutput
    \/ ReadSourceFile
    \/ SourceFilesRead
    \/ GroupContent
    \/ WriteIndex
    \/ WriteTags
    \/ WriteFeeds
    \/ RenderAll
    \/ ValidateAll

SpecBuild == BuildInit /\ [][BuildNext]_vars

----------------------------------------------------------------------------
\* main.rs:77-147 on one file: the loader reads a markdown file whose title
\* is any text of up to MaxTitle characters, with or without a layout and a
\* save_as line.

TitleChars == {"A", "1", " ", "\t", "!", "Eacute"}
Titles == UNION {[1..n -> TitleChars] : n \in 1..MaxTitle}
Layouts == {<<>>, S_page, S_post, <<"P", "a", "g", "e">>}
TitledEntries ==
    {[name |-> <<"a", ".", "m", "d">>, ext |-> "md", prefix |-> <<>>,
      contents |->
         [lines |-> <<Line(S_title, title), Line(S_date, date)>>
                    \o (IF layout = <<>> THEN <<>> ELSE <<Line(S_layout, layout)>>)
                    \o (IF save_as = <<>> THEN <<>> ELSE <<Line(S_save_as, save_as)>>),
          body |-> Body(ArticleBody)]] :
        title \in Titles, date \in GoodDates, layout \in Layouts,
        save_as \in {<<>>, <<"s", "/", "p">>}}

LoadInit ==
    /\ tree \in {<<entry>> : entry \in TitledEntries}
    /\ pc = "load"
    /\ config = NoConfig
    /\ files = <<>>
    /\ by_layout = NoGroups
    /\ by_tag = NoGroups
    /\ recent_articles = <<>>
    /\ pages = <<>>
    /\ dirs = {}
    /\ written = <<>>
    /\ result = Running
    /\ errors = <<>>
    /\ events = <<>>
    /\ parser = [depth |-> 0, para |-> FALSE, link |-> FALSE]
    /\ collected = <<>>
    /\ footnotes = <<>>
    /\ footnote_numbers = PassStart.footnote_numbers
    /\ out = <<>>
    /\ md_out = <<>>
    /\ called = {}

\* main.rs:77-147: the file is read and parsed.
LoadFile ==
    /\ pc = "load"
    /\ LET read == ReadEntry(tree[1]) IN
       /\ files' = (IF read.ok THEN read.files ELSE <<>>)
       /\ result' = (IF read.ok THEN Finished ELSE read)
       /\ pc' = (IF read.ok THEN "loaded" ELSE "aborted")
    /\ UNCHANGED <<config, tree, by_layout, by_tag, recent_articles, pages,
                   dirs, written, errors>>
    /\ UNCHANGED mdVars

LoadNext == LoadFile

SpecLoad == LoadInit /\ [][LoadNext]_vars

----------------------------------------------------------------------------
\* The markdown pipeline as a state machine.  The tokenizer
\* (pulldown_cmark::Parser, an iterator outside the repository) yields the
\* document one event at a time; once the document is complete each of the
\* two pipelines is applied to it once.
\*
\* The tokenizer's block structure is well formed: footnote definitions are
\* balanced and nest at most MaxDepth deep, paragraphs are balanced and hold
\* the inline events (text, footnote references, links), a link is closed
\* inside its paragraph.

Init ==
    /\ events = <<>>
    /\ parser = [depth |-> 0, para |-> FALSE, link |-> FALSE]
    /\ collected = <<>>
    /\ footnotes = <<>>
    /\ footnote_numbers = PassStart.footnote_numbers
    /\ out = <<>>
    /\ md_out = <<>>
    /\ called = {}
    /\ BuildNotStarted

\* The tokenizer yields event e and moves to state p.
Yield(e, p) ==
    /\ called = {}
    /\ Len(events) < MaxLen
    /\ events' = Append(events, e)
    /\ parser' = p
    /\ UNCHANGED <<collected, footnotes, footnote_numbers, out, md_out, called>>
    /\ UNCHANGED buildVars

At == Len(events) + 1

YieldFootnoteStart ==
    /\ ~parser.para
    /\ parser.depth < MaxDepth
    /\ \E l \in Labels : Yield(FnStart(l, At), [parser EXCEPT !.depth = @ + 1])

YieldFootnoteEnd ==
    /\ ~parser.para
    /\ parser.depth > 0
    /\ Yield(FnEnd(At), [parser EXCEPT !.depth = @ - 1])

YieldParagraphStart ==
    /\ ~parser.para
    /\ Yield(PStart(At), [parser EXCEPT !.para = TRUE])

YieldRule ==
    /\ ~parser.para
    /\ Yield(Rule(At), parser)

YieldParagraphEnd ==
    /\ parser.para
    /\ ~parser.link
    /\ Yield(PEnd(At), [parser EXCEPT !.para = FALSE])

YieldText ==
    /\ parser.para
    /\ Yield(Text(At), parser)

YieldFootnoteReference ==
    /\ parser.para
    /\ ~parser.link
    /\ \E l \in Labels : Yield(FnRef(l, At), parser)

YieldLinkStart ==
    /\ parser.para
    /\ ~parser.link
    /\ \E d \in Dests : Yield(LinkStart(d, At), [parser EXCEPT !.link = TRUE])

YieldLinkEnd ==
    /\ parser.link
    /\ Yield(LinkEnd(At), [parser EXCEPT !.link = FALSE])

\* The tokenizer has reached the end of the document.
DocumentComplete == parser.depth = 0 /\ ~parser.para

\* markdown.rs:6-35
ToEvents ==
    /\ DocumentComplete
    /\ "to_events" \notin called
    /\ LET mapped == MapLinks(events)
           st == ForwardPass(PassStart, mapped)
       IN  /\ collected' = mapped
           /\ footnotes' = st.footnotes
           /\ footnote_numbers' = st.footnote_numbers
           /\ out' = bottom_footnotes(mapped)
    /\ called' = called \cup {"to_events"}
    /\ UNCHANGED <<events, parser, md_out>>
    /\ UNCHANGED buildVars

\* main.rs:165-224
ToMdEvents ==
    /\ DocumentComplete
    /\ "to_md_events" \notin called
    /\ md_out' = to_md_events(events)
    /\ called' = called \cup {"to_md_events"}
    /\ UNCHANGED <<events, parser, collected, footnotes, footnote_numbers, out>>
    /\ UNCHANGED buildVars

Next ==
    \/ YieldFootnoteStart
    \/ YieldFootnoteEnd
    \/ YieldParagraphStart
    \/ YieldRule
    \/ YieldParagraphEnd
    \/ YieldText
    \/ YieldFootnoteReference
    \/ YieldLinkStart
    \/ YieldLinkEnd
    \/ ToEvents
    \/ ToMdEvents

Spec == Init /\ [][Next]_vars

----------------------------------------------------------------------------
\* What the claims speak about, read off the input of bottom_footnotes (evs)
\* without running the code.

Min(S) == CHOOSE x \in S : \A y \in S : x <= y

\* The positions of the references to label l.
RefsOf(evs, l) == {i \in 1..Len(evs) : evs[i].t = "FnRef" /\ evs[i].name = l}
Referenced(evs) == {l \in Labels : RefsOf(evs, l) # {}}
FirstRef(evs, l) == Min(RefsOf(evs, l))
\* The reference at position i is the k-th reference to its label.
OccurrenceIndex(evs, i) == Cardinality({j \in RefsOf(evs, evs[i].name) : j <= i})

\* The number of footnote definitions open just before position i.
OpenBefore(evs, i) ==
    Cardinality({j \in 1..(i - 1) : evs[j].t = "FnStart"})
    - Cardinality({j \in 1..(i - 1) : evs[j].t = "FnEnd"})

DefStarts(evs) == {j \in 1..Len(evs) : evs[j].t = "FnStart"}
DefsOf(evs, l) == {j \in DefStarts(evs) : evs[j].name = l}
MatchingEnd(evs, j) ==
    Min({k \in (j + 1)..Len(evs) :
            evs[k].t = "FnEnd" /\ OpenBefore(evs, k) = OpenBefore(evs, j) + 1})
\* The body of the definition that starts at j: the events between its start
\* and its end that belong to it and not to a definition nested in it.
OwnBody(evs, j) ==
    {i \in (j + 1)..(MatchingEnd(evs, j) - 1) :
        /\ evs[i].t \notin {"FnStart", "FnEnd"}
        /\ OpenBefore(evs, i) = OpenBefore(evs, j) + 1}

\* The positions outside every definition, in order.
MainPositions(evs) ==
    SelectSeq([i \in 1..Len(evs) |-> i],
              LAMBDA i : evs[i].t \notin {"FnStart", "FnEnd"} /\ OpenBefore(evs, i) = 0)

IsHtml(e, kind) == e.t = "Html" /\ e.kind = kind

\* The output of to_events splits into the main part and the appended section.
MainLen == Len(MainPositions(collected))
ListItems == {p \in (MainLen + 1)..Len(out) : IsHtml(out[p], "li")}
ItemsOf(l) == {p \in ListItems : out[p].id = <<"fn", l>>}
\* The list item that opens at p runs to the event before the next item.
ItemEnd(p) == IF \E q \in ListItems : q > p
              THEN Min({q \in ListItems : q > p}) - 1
              ELSE Len(out)
Applied == "to_events" \in called

----------------------------------------------------------------------------
\* C1: the appended list items are ordered by the first reference of their
\* labels: if the first reference to X precedes the first reference to Y in
\* the input, every emitted definition of X stands before every emitted
\* definition of Y, whatever the order of the two definitions in the input.
C1_OrderedByFirstReference ==
    Applied =>
        \A x \in Referenced(collected), y \in Referenced(collected) :
            FirstRef(collected, x) < FirstRef(collected, y) =>
                \A p \in ItemsOf(x), q \in ItemsOf(y) : p < q

\* Y is defined before X in the input, X is referenced first, both are emitted.
C1_Witness ==
    /\ Applied
    /\ \E x \in Labels, y \in Labels :
        /\ ItemsOf(x) # {} /\ ItemsOf(y) # {}
        /\ FirstRef(collected, x) < FirstRef(collected, y)
        /\ \E dx \in DefsOf(collected, x), dy \in DefsOf(collected, y) : dy < dx

----------------------------------------------------------------------------
\* C2: for a label l referenced u >= 1 times and defined once, the anchor
\* that replaces its k-th reference has id fr-l-k (so the u ids are distinct
\* and in order of occurrence), and the one emitted item of l holds exactly
\* one back-reference fragment, at the final paragraph end or at the
\* definition end, with u links, the k-th to fr-l-k, the first with the plain
\* glyph and the k-th (k >= 2) with the glyph suffixed by k.

\* Every event the forward pass produced: the main part and all buffers.
PassEvents == SubSeq(out, 1, MainLen) \o Flatten(footnotes)
AnchorsAt(i) ==
    {k \in 1..Len(PassEvents) : IsHtml(PassEvents[k], "anchor") /\ PassEvents[k].at = i}
BackrefsIn(p) == {k \in p..ItemEnd(p) : IsHtml(out[k], "backrefs")}

C2_AnchorsAndBackrefs ==
    Applied =>
        \A l \in Referenced(collected) :
            Cardinality(DefsOf(collected, l)) = 1 =>
                LET u == Cardinality(RefsOf(collected, l)) IN
                /\ \A i \in RefsOf(collected, l) :
                    /\ Cardinality(AnchorsAt(i)) = 1
                    /\ \A k \in AnchorsAt(i) :
                        PassEvents[k].id = <<"fr", l, OccurrenceIndex(collected, i)>>
                /\ Cardinality(ItemsOf(l)) = 1
                /\ \A p \in ItemsOf(l) :
                    /\ Cardinality(BackrefsIn(p)) = 1
                    /\ \A k \in BackrefsIn(p) :
                        /\ Len(out[k].links) = u
                        /\ \A n \in 1..u :
                            /\ out[k].links[n].href = <<"fr", l, n>>
                            /\ out[k].links[n].suffix = (IF n = 1 THEN 0 ELSE n)
                        /\ \/ out[k].closes = "li" /\ k = ItemEnd(p)
                           \/ /\ out[k].closes = "p"
                              /\ k = ItemEnd(p) - 1
                              /\ IsHtml(out[ItemEnd(p)], "liclose")

\* A label referenced twice whose definition ends with a paragraph.
C2_Witness ==
    /\ Applied
    /\ \E l \in Labels :
        /\ Cardinality(RefsOf(collected, l)) >= 2
        /\ Cardinality(DefsOf(collected, l)) = 1
        /\ \E p \in ItemsOf(l) : \E k \in BackrefsIn(p) : out[k].closes = "p"

----------------------------------------------------------------------------
\* C3: a definition whose label is never referenced produces no output: no
\* list item fn-<label>, and no event of the definition (its start, its end,
\* the events of its body) has a descendant in the returned sequence.
C3_UnusedDefinitionDropped ==
    Applied =>
        \A j \in DefStarts(collected) :
            RefsOf(collected, collected[j].name) = {} =>
                /\ \A k \in 1..Len(out) :
                    ~(IsHtml(out[k], "li") /\ out[k].id = <<"fn", collected[j].name>>)
                /\ \A i \in OwnBody(collected, j) \cup {j, MatchingEnd(collected, j)} :
                    \A k \in 1..Len(out) : out[k].at # i

\* An unused definition with a body, next to a definition that is emitted.
C3_Witness ==
    /\ Applied
    /\ ListItems # {}
    /\ \E j \in DefStarts(collected) :
        /\ RefsOf(collected, collected[j].name) = {}
        /\ OwnBody(collected, j) # {}

----------------------------------------------------------------------------
\* C4: the thematic break and the list wrapper are appended only if at least
\* one definition survives the unused-label filter; when no definition is
\* referenced the result is the main events alone.
C4_AppendedOnlyIfSurvivors ==
    Applied =>
        ((\A j \in DefStarts(collected) : RefsOf(collected, collected[j].name) = {})
            => Len(out) = MainLen)

----------------------------------------------------------------------------
\* C5: the output starts with the main stream: the events outside every
\* definition, once each, unchanged and in their order, each reference
\* replaced at its place by one anchor; no definition start or end, no
\* reference and no event from inside a definition occurs there.  What
\* follows, if anything, is the appended section.
C5_MainStreamPreserved ==
    Applied =>
        LET main == MainPositions(collected) IN
        /\ Len(out) >= Len(main)
        /\ \A k \in 1..Len(main) :
            LET e == collected[main[k]] IN
            IF e.t = "FnRef"
            THEN /\ IsHtml(out[k], "anchor")
                 /\ out[k].at = main[k]
                 /\ out[k].href = <<"fn", e.name>>
            ELSE out[k] = e
        /\ \A k \in 1..Len(main) :
            /\ out[k].t \notin {"FnStart", "FnEnd", "FnRef"}
            /\ OpenBefore(collected, out[k].at) = 0
        /\ Len(out) > Len(main) =>
            /\ out[Len(main) + 1] = Rule(0)
            /\ out[Len(main) + 2] = OlOpenHtml

\* A main stream with a reference and other events around a definition that
\* has a body.
C5_Witness ==
    /\ Applied
    /\ \E j \in DefStarts(collected) :
        /\ OwnBody(collected, j) # {}
        /\ \E i \in 1..(j - 1), k \in (j + 1)..Len(collected) :
            /\ collected[i].t = "FnRef" /\ OpenBefore(collected, i) = 0
            /\ collected[k].t = "Rule" /\ OpenBefore(collected, k) = 0

----------------------------------------------------------------------------
\* C6: the pipeline that main.rs calls, to_md_events, returns what markdown.rs
\* to_events returns on the same tokenizer output.
C6_MainUsesFootnoteBottomer ==
    called = {"to_events", "to_md_events"} => md_out = out

----------------------------------------------------------------------------
\* C7: the link rewrite is idempotent: applied to an already rewritten
\* sequence it changes nothing; and the first application alters no event
\* that is not a link start.
C7_RewriteIdempotent ==
    Applied =>
        /\ MapLinks(collected) = collected
        /\ Len(collected) = Len(events)
        /\ \A i \in 1..Len(events) :
            events[i].t # "LinkStart" => collected[i] = events[i]

\* A destination that begins with two escape markers has been rewritten.
C7_Witness ==
    /\ Applied
    /\ \E i \in 1..Len(events) :
        /\ events[i].t = "LinkStart"
        /\ Len(events[i].dest_url) >= 2
        /\ events[i].dest_url[1] = "!" /\ events[i].dest_url[2] = "!"
        /\ collected[i].dest_url = <<"x">>

----------------------------------------------------------------------------
\* The build: drafts, tag pages, fail-fast loading.

ContentItems == {i \in 1..Len(files) : files[i].kind = "Content"}
DraftItems == {i \in ContentItems : files[i].status = "Draft"}
HiddenItems == {i \in ContentItems : files[i].status = "Hidden"}

\* The writes of the page of item i.
ArticleWritesOf(i) ==
    {k \in 1..Len(written) :
        /\ written[k].content.page = "article"
        /\ written[k].content.article.item = i}

\* The writes of the pages that list articles.
ListingWrites ==
    {k \in 1..Len(written) :
        written[k].content.page \in {"index", "archives", "tag", "rss", "atom"}}
ListedIn(k) ==
    {written[k].content.articles[a].item : a \in 1..Len(written[k].content.articles)}

InNoGroup(i) ==
    /\ \A l \in DOMAIN by_layout : \A a \in 1..Len(by_layout[l]) : by_layout[l][a] # i
    /\ \A t \in DOMAIN by_tag : \A a \in 1..Len(by_tag[t]) : by_tag[t][a] # i
    /\ \A a \in 1..Len(recent_articles) : recent_articles[a].item # i
    /\ \A a \in 1..Len(pages) : pages[a].item # i
    /\ \A k \in ListingWrites : i \notin ListedIn(k)

\* C8: a draft item is in no layout group and no tag group and on no index,
\* archive, tag page or feed, and so is a hidden item; after a complete
\* build the page of a draft has been written at
\* draft/<output_path>/index.html and nowhere else.
C8_DraftsOnlyUnderDraft ==
    /\ \A i \in DraftItems \cup HiddenItems : InNoGroup(i)
    /\ \A i \in DraftItems :
          LET dst == <<S_draft>> \o files[i].path \o <<S_index_html>>
          IN  /\ \A k \in ArticleWritesOf(i) : written[k].path = dst
              /\ pc = "done" => \E k \in ArticleWritesOf(i) : written[k].path = dst

\* A complete build with tag pages and a tagged draft that has a layout.
C8_Witness ==
    /\ pc = "done"
    /\ DOMAIN by_tag # {}
    /\ \E i \in DraftItems :
          /\ files[i].tags # <<>>
          /\ S_layout \in DOMAIN files[i].metadata
          /\ ArticleWritesOf(i) # {}

TagPageWrites == {k \in 1..Len(written) : written[k].content.page = "tag"}

\* C9: every tag page lists its items newest first: of any two listed
\* items the one that stands first has no earlier timestamp.
C9_TagPageNewestFirst ==
    \A k \in TagPageWrites :
        LET listed == written[k].content.articles
        IN  \A a \in 1..Len(listed) : \A b \in 1..Len(listed) :
                a < b => TimeCmp(listed[a].timestamp, listed[b].timestamp) >= 0

\* What makes a markdown file of the content tree malformed.
IsMarkdown(entry) == entry.ext \in {"md", "markdown"}
FieldValues(lines, key) ==
    {SplitOnce(l, S_colon_space)[2] :
        l \in {lines[i] : i \in {j \in 1..Len(lines) :
                  IsDelimited(lines[j]) /\ MetadataKey(lines[j]) = key}}}
IsMalformed(entry) ==
    /\ IsMarkdown(entry)
    /\ LET lines == entry.contents.lines IN
       \/ entry.contents.body = NoBody
       \/ \E i \in 1..Len(lines) : ~Contains(lines[i], S_colon_space)
       \/ FieldValues(lines, S_date) = {}
       \/ \E date \in FieldValues(lines, S_date) : date \notin GoodDates
       \/ \E status \in FieldValues(lines, S_status) :
             ToAsciiLowercase(status) \notin {S_public, S_draft, S_hidden}

\* The malformed ones among the entries the content directory can hold.
MalformedEntries == {entry \in SourceEntries : IsMalformed(entry)}

\* C10: once a malformed markdown file has been read the loader has failed,
\* there is no list of entries, the build has stopped and the output tree
\* holds no page, index, feed or static file.
C10_FailFastLoading ==
    (\E k \in 1..Len(tree) : tree[k] \in MalformedEntries) =>
        /\ pc = "aborted"
        /\ ~result.ok
        /\ files = <<>>
        /\ written = <<>>

\* The loader fails on a malformed file after it has read good ones, a
\* content item and a static file among them.
C10_Witness ==
    /\ pc = "aborted"
    /\ Len(tree) = MaxEntries
    /\ tree[Len(tree)] \in MalformedEntries
    /\ \E k \in 1..(Len(tree) - 1) : IsMarkdown(tree[k]) /\ tree[k] \notin MalformedEntries
    /\ \E k \in 1..(Len(tree) - 1) : tree[k].ext = "png"
    /\ files = <<>>

----------------------------------------------------------------------------
\* The link validator.

StaticItems == {i \in 1..Len(files) : files[i].kind = "Static"}
StaticWritesOf(i) ==
    {k \in 1..Len(written) :
        written[k].content.page = "static" /\ written[k].content.item = i}
AllRendered ==
    /\ \A i \in ContentItems : ArticleWritesOf(i) # {}
    /\ \A i \in StaticItems : StaticWritesOf(i) # {}

\* The link destinations of item i, and the file an internal one points at.
LinksOf(i) ==
    LET evs == to_md_events(files[i].markdown)
    IN  {evs[k].dest_url : k \in {j \in 1..Len(evs) : evs[j].t = "LinkStart"}}
InternalLinksOf(i) == {url \in LinksOf(i) : Head(url) = "/"}
TargetOf(url) ==
    LET trimmed == TrimSlashes(url)
    IN  IF \E c \in 1..Len(trimmed) : trimmed[c] = "#"
        THEN SplitOnce(trimmed, <<"#">>)[1] ELSE trimmed
InFinishedTree(path) ==
    path \in dirs \/ \E k \in 1..Len(written) : written[k].path = path
Logged(i, error, url) ==
    \E e \in 1..Len(errors) :
        errors[e] = [item |-> i, error |-> error, url |-> url]

\* C11: no link is checked before every content item and every static file
\* has been written; a dangling link is logged exactly when its target is
\* missing from the finished tree; the pass writes nothing and always ends
\* the build with success.
C11_ValidationIsFinalPass ==
    /\ [](/\ errors # <<>> => pc = "done"
          /\ pc \in {"validate", "done"} => AllRendered
          /\ pc = "done" =>
                /\ result = Finished
                /\ \A i \in ContentItems : \A url \in InternalLinksOf(i) :
                      Logged(i, "Dangling internal URL", TargetOf(url))
                          <=> ~InFinishedTree(PathComponents(TargetOf(url))))
    /\ [][pc = "validate" =>
            /\ pc' = "done"
            /\ result' = Finished
            /\ written' = written
            /\ dirs' = dirs]_vars

\* The pass has ended with success over an item whose links are dangling,
\* not absolute, external and valid, the valid one pointing at a static
\* file that was loaded after the item.
C11_Witness ==
    /\ pc = "done"
    /\ result = Finished
    /\ \E i \in ContentItems : \E j \in StaticItems :
          /\ i < j
          /\ \E url \in InternalLinksOf(i) :
                /\ PathComponents(TargetOf(url)) = files[j].path
                /\ ~Logged(i, "Dangling internal URL", TargetOf(url))
          /\ \E url \in InternalLinksOf(i) : Logged(i, "Dangling internal URL", TargetOf(url))
          /\ \E url \in LinksOf(i) : Logged(i, "Internal URLs should be absolute", url)
          /\ \E url \in LinksOf(i) : StartsWith(url, S_http)

----------------------------------------------------------------------------
\* The feeds.

\* render::feeds has run: tags.html, which main writes before, is there and
\* main is past the call.
FeedsCalled ==
    /\ pc \notin {"start", "read", "group", "index", "tags", "feeds"}
    /\ \E k \in 1..Len(written) : written[k].path = <<S_tags_html>>
FeedWritten(kind, path) ==
    \E k \in 1..Len(written) :
        /\ written[k].path = PathComponents(path)
        /\ written[k].content.page = kind
        /\ Len(written[k].content.articles) <= config.max_feed_entries
        /\ Front(PathComponents(path)) \in dirs

\* C12: once feeds has run, the RSS file and the Atom file stand at their
\* configured paths, each in its parent directory and each with at most
\* max_feed_entries items.
C12_BothFeedsWritten ==
    FeedsCalled =>
        /\ FeedWritten("rss", config.feed_all_rss)
        /\ FeedWritten("atom", config.feed_all_atom)

----------------------------------------------------------------------------
\* The output path.

\* The file that was loaded, read as text.
LoadedLines == tree[1].contents.lines
WrittenValue(key) ==
    LET i == CHOOSE j \in 1..Len(LoadedLines) : StartsWith(LoadedLines[j], key \o S_colon_space)
    IN  SubSeq(LoadedLines[i], Len(key) + 3, Len(LoadedLines[i]))
IsWritten(key) ==
    \E j \in 1..Len(LoadedLines) : StartsWith(LoadedLines[j], key \o S_colon_space)

\* Lower case of a character, letters outside ASCII included.
LowerCased(c) ==
    IF c = "Eacute" THEN "eacute"
    ELSE IF IndexOf(Upper, c) # 0 THEN Lower[IndexOf(Upper, c)] ELSE c
IsLetterOrDigit(c) ==
    c = "Eacute" \/ IndexOf(Upper, c) # 0 \/ IndexOf(Lower, c) # 0 \/ IndexOf(Digits, c) # 0
\* The slug as the claim describes it.
SlugOfTitle(title) ==
    LET kept == SelectSeq(title, LAMBDA c : IsLetterOrDigit(c) \/ c \in {" ", "\t"})
    IN  [i \in 1..Len(kept) |-> IF kept[i] = " " THEN "-" ELSE LowerCased(kept[i])]
DerivedPath ==
    LET date == WrittenValue(S_date)
        slug == SlugOfTitle(WrittenValue(S_title))
    IN  IF IsWritten(S_save_as) THEN <<WrittenValue(S_save_as)>>
        ELSE IF IsWritten(S_layout) /\ WrittenValue(S_layout) = S_page THEN <<slug>>
        ELSE <<S_blog \o <<"/">> \o SubSeq(date, 1, 4) \o <<"/">> \o SubSeq(date, 6, 7)
               \o <<"/">> \o SubSeq(date, 9, 10) \o <<"/">> \o slug>>
\* A path of components as one text.
RECURSIVE JoinPath(_)
JoinPath(path) ==
    IF path = <<>> THEN <<>>
    ELSE IF Len(path) = 1 THEN path[1]
    ELSE path[1] \o <<"/">> \o JoinPath(Tail(path))

\* C13: the output path of a loaded file is its save_as value if it has
\* one; else its slug (the title without the characters that are neither
\* alphanumeric nor whitespace, in lower case, spaces as hyphens) for the
\* layout page, and blog/<YYYY>/<MM>/<DD>/<slug> for every other layout and
\* for none.
C13_OutputPathDerivation ==
    pc = "loaded" => <<JoinPath(files[1].path)>> = DerivedPath

----------------------------------------------------------------------------
\* The numbers and the links of the footnotes.

OutAnchors == {k \in 1..Len(out) : IsHtml(out[k], "anchor")}
OutBackrefs == {k \in 1..Len(out) : IsHtml(out[k], "backrefs")}
\* The position of the n-th item of the appended list.
NthItem(n) == CHOOSE p \in ListItems : Cardinality({q \in ListItems : q <= p}) = n

\* C14: an anchor of the output that shows the number n and links to fn-L
\* has the n-th item of the appended list as its target: the list has an
\* n-th item and its id is fn-L.
C14_NumbersMatchList ==
    Applied =>
        \A k \in OutAnchors :
            /\ out[k].number <= Cardinality(ListItems)
            /\ out[NthItem(out[k].number)].id = out[k].href

\* C15: in the output every back-reference link points at the id of an
\* anchor of the output, and every anchor links to the id of an item of the
\* appended list.
C15_LinksClosed ==
    Applied =>
        /\ \A k \in OutBackrefs : \A u \in 1..Len(out[k].links) :
              \E a \in OutAnchors : out[a].id = out[k].links[u].href
        /\ \A a \in OutAnchors : \E p \in ListItems : out[p].id = out[a].href

----------------------------------------------------------------------------
\* The tag groups.

\* C16: no item stands twice in the group of a tag, nor twice on a tag page.
C16_TagGroupsUnique ==
    /\ \A t \in DOMAIN by_tag : \A a \in 1..Len(by_tag[t]) : \A b \in 1..Len(by_tag[t]) :
          a # b => by_tag[t][a] # by_tag[t][b]
    /\ \A k \in TagPageWrites :
          LET listed == written[k].content.articles
          IN  \A a \in 1..Len(listed) : \A b \in 1..Len(listed) :
                  a # b => listed[a].item # listed[b].item

====
